---- MODULE Spec2Model ----
(***************************************************************************)
(* Model of src/ual/influx/ual_lubw_co_export.py: the Flux query builder,  *)
(* the query-result normalizer and the fetch orchestrators.                *)
(*                                                                         *)
(* A pandas DataFrame is a record                                          *)
(*   [cols |-> sequence of column labels,                                  *)
(*    idx  |-> name of the index ("" for an unnamed index),                *)
(*    rows |-> sequence of [k |-> index label, v |-> cell values]]         *)
(* with v aligned to cols.  A query text is the sequence of the pieces the *)
(* f-string concatenates: the literal parts of the template and the        *)
(* interpolated values, in order.  A dict is the sequence of its           *)
(* (key, value) pairs in insertion order.  None and the empty list / dict  *)
(* are both falsy and the code only tests truthiness, so both are <<>>.    *)
(***************************************************************************)
EXTENDS Integers, Sequences, FiniteSets, TLC

VARIABLES pc, op, arg, ret, sent, sink, locals

vars == <<pc, op, arg, ret, sent, sink, locals>>

\* ---------------------------------------------------------------- bounds
\* timestamps the executor's answers range over, and rows per answer
MaxTime == 3
MaxHours == 2
\* timestamps, rows and fragments of the raw results handed to the normalizer
MaxStamp == 2
MaxRows == 3
MaxFrags == 2
\* length of a caller's field list
MaxFields == 2

\* ------------------------------------------------------- sequence helpers
Range(s) == {s[i] : i \in DOMAIN s}

RECURSIVE Flatten(_)
Flatten(ss) == IF ss = <<>> THEN <<>> ELSE Head(ss) \o Flatten(Tail(ss))

RECURSIVE JoinWith(_, _)
JoinWith(sep, ss) ==
  IF ss = <<>> THEN <<>>
  ELSE IF Len(ss) = 1 THEN Head(ss)
  ELSE Head(ss) \o sep \o JoinWith(sep, Tail(ss))

IndexOf(s, x) == CHOOSE i \in DOMAIN s : s[i] = x /\ \A j \in 1..(i - 1) : s[j] # x

Positions(s, x) == {i \in DOMAIN s : s[i] = x}

RECURSIVE Dedup(_)
Dedup(s) ==
  IF s = <<>> THEN <<>>
  ELSE LET r == Dedup(SubSeq(s, 1, Len(s) - 1))
           x == s[Len(s)]
       IN IF x \in Range(r) THEN r ELSE Append(r, x)

SeqsUpTo(S, n) == UNION {[1..k -> S] : k \in 0..n}

RECURSIVE SortedSeq(_)
SortedSeq(S) ==
  IF S = {} THEN <<>>
  ELSE LET m == CHOOSE x \in S : \A y \in S : x <= y
       IN <<m>> \o SortedSeq(S \ {m})

\* ------------------------------------------------------------ DataFrames
NaN == 0 - 1

EmptyFrame == [cols |-> <<>>, idx |-> "", rows |-> <<>>]

IsEmpty(df) == Len(df.cols) = 0 \/ Len(df.rows) = 0

Cell(df, i, c) == df.rows[i].v[IndexOf(df.cols, c)]

Drop(df, names) ==
  LET ps == SelectSeq([i \in DOMAIN df.cols |-> i], LAMBDA i : df.cols[i] \notin names)
  IN [cols |-> [j \in DOMAIN ps |-> df.cols[ps[j]]],
      idx  |-> df.idx,
      rows |-> [i \in DOMAIN df.rows |->
                  [k |-> df.rows[i].k,
                   v |-> [j \in DOMAIN ps |-> df.rows[i].v[ps[j]]]]]]

MetadataColumns == {"result", "table", "_start", "_stop", "_measurement", "topic", "host"}

LookupRename(rename_map, c) ==
  LET hits == {i \in DOMAIN rename_map : rename_map[i][1] = c}
  IN IF hits = {} THEN c
     ELSE rename_map[CHOOSE i \in hits : \A j \in hits : j <= i][2]

RenameColumns(df, rename_map) ==
  [df EXCEPT !.cols = [j \in DOMAIN df.cols |-> LookupRename(rename_map, df.cols[j])]]

SetIndex(df, c) ==
  LET p == IndexOf(df.cols, c)
      ps == SelectSeq([i \in DOMAIN df.cols |-> i], LAMBDA i : i # p)
  IN [cols |-> [j \in DOMAIN ps |-> df.cols[ps[j]]],
      idx  |-> c,
      rows |-> [i \in DOMAIN df.rows |->
                  [k |-> df.rows[i].v[p],
                   v |-> [j \in DOMAIN ps |-> df.rows[i].v[ps[j]]]]]]

Realign(df, cols) ==
  [i \in DOMAIN df.rows |->
     [k |-> df.rows[i].k,
      v |-> [j \in DOMAIN cols |->
               IF cols[j] \in Range(df.cols) THEN Cell(df, i, cols[j]) ELSE NaN]]]

Concat(frames) ==
  LET cols == Dedup(Flatten([f \in DOMAIN frames |-> frames[f].cols]))
      rows == Flatten([f \in DOMAIN frames |-> Realign(frames[f], cols)])
  IN [cols |-> cols, idx |-> "",
      rows |-> [i \in DOMAIN rows |-> [k |-> i - 1, v |-> rows[i].v]]]

\* A raw result is [list |-> TRUE, frames |-> the list of frames], or, for a
\* result that is one frame and not a list, [list |-> FALSE, frames |-> <<frame>>].
\* only the first table of a list is kept
_normalize_df_first_only(result) ==
  IF result.list
  THEN IF result.frames = <<>> THEN EmptyFrame ELSE result.frames[1]
  ELSE result.frames[1]

_normalize_df(result) ==
  IF result.list
  THEN IF result.frames = <<>> THEN EmptyFrame ELSE Concat(result.frames)
  ELSE result.frames[1]

_clean_query_df(result) ==
  LET df == _normalize_df(result)
  IN IF IsEmpty(df) THEN df
     ELSE LET d == Drop(df, MetadataColumns)
          IN IF "_time" \in Range(d.cols) THEN SetIndex(d, "_time") ELSE d

\* "host" missing from the list of columns to drop
_clean_query_df_with_rename_keeps_host(result, rename_map) ==
  LET df == _normalize_df(result)
  IN IF IsEmpty(df) THEN df
     ELSE LET d == Drop(df, MetadataColumns \ {"host"})
              r == IF rename_map # <<>> THEN RenameColumns(d, rename_map) ELSE d
          IN IF "_time" \in Range(r.cols) THEN SetIndex(r, "_time") ELSE r

_clean_query_df_with_rename(result, rename_map) ==
  LET df == _normalize_df(result)
  IN IF IsEmpty(df) THEN df
     ELSE LET d == Drop(df, MetadataColumns)
              r == IF rename_map # <<>> THEN RenameColumns(d, rename_map) ELSE d
          IN IF "_time" \in Range(r.cols) THEN SetIndex(r, "_time") ELSE r

\* ---------------------------------------------------------- query builder
NL == "\n  "

Raise(e) == [kind |-> "raise", err |-> e, text |-> <<>>]

ReturnText(t) == [kind |-> "return", err |-> "", text |-> t]

\* join() over the terms without the emptiness check
_as_flux_or_filter_unguarded(fields) ==
  ReturnText(JoinWith(<<" or ">>,
                      [i \in DOMAIN fields |-> <<"r._field == \"", fields[i], "\"">>]))

_as_flux_or_filter(fields) ==
  IF fields = <<>>
  THEN Raise("RuntimeError")
  ELSE ReturnText(JoinWith(<<" or ">>,
                           [i \in DOMAIN fields |-> <<"r._field == \"", fields[i], "\"">>]))

_as_flux_rename_map(rename_map) ==
  IF rename_map = <<>>
  THEN <<>>
  ELSE JoinWith(<<", ">>,
                [i \in DOMAIN rename_map |->
                   <<rename_map[i][1], ": \"", rename_map[i][2], "\"">>])

\* the window written into the template instead of interpolated
build_hourly_source_query_fixed_window(start, stop, bucket, measurement, topic, fields, rename_map, aggregate_every) ==
  LET filter == _as_flux_or_filter(fields)
  IN IF filter.kind = "raise"
     THEN filter
     ELSE ReturnText(
            <<"from(bucket: \"", bucket, "\")", NL,
              "|> range(start: ", start, ", stop: ", stop, ")", NL,
              "|> filter(fn: (r) => r._measurement == \"", measurement,
              "\" and r.topic == \"", topic, "\")", NL,
              "|> filter(fn: (r) => ">> \o filter.text \o <<")", NL,
              "|> aggregateWindow(every: ", "1h",
              ", fn: mean, createEmpty: false)", NL,
              "|> pivot(rowKey: [\"_time\"], columnKey: [\"_field\"], valueColumn: \"_value\")">>)

build_hourly_source_query(start, stop, bucket, measurement, topic, fields, rename_map, aggregate_every) ==
  LET filter == _as_flux_or_filter(fields)
  IN IF filter.kind = "raise"
     THEN filter
     ELSE ReturnText(
            <<"from(bucket: \"", bucket, "\")", NL,
              "|> range(start: ", start, ", stop: ", stop, ")", NL,
              "|> filter(fn: (r) => r._measurement == \"", measurement,
              "\" and r.topic == \"", topic, "\")", NL,
              "|> filter(fn: (r) => ">> \o filter.text \o <<")", NL,
              "|> aggregateWindow(every: ", aggregate_every,
              ", fn: mean, createEmpty: false)", NL,
              "|> pivot(rowKey: [\"_time\"], columnKey: [\"_field\"], valueColumn: \"_value\")">>)

\* str.format on a topic template: the template is the sequence of its literal
\* pieces and "{sensor}" placeholders.
Format(template, sensor) ==
  LET F[i \in 0..Len(template)] ==
        IF i = 0 THEN ""
        ELSE F[i - 1] \o (IF template[i] = "{sensor}" THEN sensor ELSE template[i])
  IN F[Len(template)]

UAL_MINUTE_MEASUREMENT_BUCKET == "UAL_MINUTE_MEASUREMENT_BUCKET"
LUBW_HOUR_BUCKET == "LUBW_HOUR_BUCKET"

DefaultUalMeasurement == "measurement_data"
DefaultLubwMeasurement == "lubw_hour_data"
DefaultUalTopicTemplate == <<"sensors/measurement/", "{sensor}">>
DefaultLubwTopicTemplate == <<"sensors/lubw-hour/", "{sensor}">>
DefaultUalFields == <<"CO", "RAW_ADC_CO_A", "RAW_ADC_CO_W", "sht_temp", "sht_humid">>
DefaultLubwFields == <<"CO", "TEMP">>
CoUalRename == << <<"CO", "CO_ual">>, <<"sht_temp", "UAL_TEMP">> >>
CoLubwRename == << <<"CO", "CO_lubw">>, <<"TEMP", "LUBW_TEMP">> >>

build_co_hourly_join_query(start, stop, ual_sensor, lubw_sensor, ual_bucket, lubw_bucket) ==
  LET ual == build_hourly_source_query(start, stop, ual_bucket, "measurement_data",
                                       "sensors/measurement/" \o ual_sensor,
                                       DefaultUalFields, CoUalRename, "1h")
      lubw == build_hourly_source_query(start, stop, lubw_bucket, "lubw_hour_data",
                                        "sensors/lubw-hour/" \o lubw_sensor,
                                        DefaultLubwFields, CoLubwRename, "1h")
  IN IF ual.kind = "raise" THEN ual
     ELSE IF lubw.kind = "raise" THEN lubw
     ELSE ReturnText(<<"ual = ">> \o ual.text \o <<"\n\n", "lubw = ">> \o lubw.text
                     \o <<"\n\n",
                          "join(tables: {ual: ual, lubw: lubw}, on: [\"_time\"], method: \"inner\")">>)

build_co_hourly_ual_query(start, stop, ual_sensor, ual_bucket) ==
  build_hourly_source_query(start, stop, ual_bucket, "measurement_data",
                            "sensors/measurement/" \o ual_sensor,
                            <<"CO", "RAW_ADC_CO_A", "RAW_ADC_CO_W">>, <<>>, "1h")

build_co_hourly_lubw_query(start, stop, lubw_sensor, lubw_bucket) ==
  build_hourly_source_query(start, stop, lubw_bucket, "lubw_hour_data",
                            "sensors/lubw-hour/" \o lubw_sensor,
                            <<"CO">>, <<>>, "1h")

\* ------------------------------------------------------------------ join
NaNs(n) == [j \in 1..n |-> NaN]

Matches(df, key) == SelectSeq([i \in DOMAIN df.rows |-> i], LAMBDA i : df.rows[i].k = key)

Keys(df) == {df.rows[i].k : i \in DOMAIN df.rows}

\* DataFrame.join(other, how=how) on the two indexes, no suffixes given.
Join(left, right, how) ==
  LET inner(i) == LET m == Matches(right, left.rows[i].k)
                  IN [j \in DOMAIN m |->
                        [k |-> left.rows[i].k, v |-> left.rows[i].v \o right.rows[m[j]].v]]
      leftRow(i) == IF Matches(right, left.rows[i].k) = <<>>
                    THEN << [k |-> left.rows[i].k,
                             v |-> left.rows[i].v \o NaNs(Len(right.cols))] >>
                    ELSE inner(i)
      rightRow(i) == LET m == Matches(left, right.rows[i].k)
                     IN IF m = <<>>
                        THEN << [k |-> right.rows[i].k,
                                 v |-> NaNs(Len(left.cols)) \o right.rows[i].v] >>
                        ELSE [j \in DOMAIN m |->
                                [k |-> right.rows[i].k,
                                 v |-> left.rows[m[j]].v \o right.rows[i].v]]
      keys == SortedSeq(Keys(left) \cup Keys(right))
      outerKey(key) == LET l == Matches(left, key)
                           r == Matches(right, key)
                       IN IF l = <<>>
                          THEN [j \in DOMAIN r |->
                                  [k |-> key, v |-> NaNs(Len(left.cols)) \o right.rows[r[j]].v]]
                          ELSE Flatten([j \in DOMAIN l |-> leftRow(l[j])])
      rows == CASE how = "inner" -> Flatten([i \in DOMAIN left.rows |-> inner(i)])
                [] how = "left"  -> Flatten([i \in DOMAIN left.rows |-> leftRow(i)])
                [] how = "right" -> Flatten([i \in DOMAIN right.rows |-> rightRow(i)])
                [] how = "outer" -> Flatten([i \in DOMAIN keys |-> outerKey(keys[i])])
  IN IF Range(left.cols) \cap Range(right.cols) # {}
     THEN [kind |-> "raise", err |-> "ValueError", df |-> EmptyFrame]
     ELSE [kind |-> "return", err |-> "",
           df |-> [cols |-> left.cols \o right.cols,
                   idx  |-> IF left.idx = right.idx THEN left.idx ELSE "",
                   rows |-> rows]]

\* ---------------------------------------------------------- orchestrators
\* the argument used as given
OrDefault_missing(x, default) == x

OrDefault(x, default) == IF x = <<>> THEN default ELSE x

Failed(e, sent_, sink_, ual_df, lubw_df) ==
  [kind |-> "raise", err |-> e, df |-> EmptyFrame, sent |-> sent_, sink |-> sink_,
   ual_df |-> ual_df, lubw_df |-> lubw_df]

\* the join without the branches for empty sides
joined_df_always_join(ual_df, lubw_df, join_how) == Join(ual_df, lubw_df, join_how)

\* The branch that picks the joined table from the two normalized tables.
joined_df(ual_df, lubw_df, join_how) ==
  IF IsEmpty(ual_df) /\ IsEmpty(lubw_df)
  THEN [kind |-> "return", err |-> "", df |-> [EmptyFrame EXCEPT !.idx = "_time"]]
  ELSE IF IsEmpty(ual_df)
  THEN [kind |-> "return", err |-> "", df |-> lubw_df]
  ELSE IF IsEmpty(lubw_df)
  THEN [kind |-> "return", err |-> "", df |-> ual_df]
  ELSE Join(ual_df, lubw_df, join_how)

\* a: the keyword arguments; r_ual, r_lubw: what the executor answers to the
\* first and to the second query_data_frame call.
fetch_hourly_ual_lubw(a, r_ual, r_lubw) ==
  LET ual_fields == OrDefault(a.ual_fields, DefaultUalFields)
      lubw_fields == OrDefault(a.lubw_fields, DefaultLubwFields)
      ual_rename == OrDefault(a.ual_rename, <<>>)
      lubw_rename == OrDefault(a.lubw_rename, <<>>)
      ual_query == build_hourly_source_query(a.start, a.stop, a.ual_bucket,
                     a.ual_measurement, Format(a.ual_topic_template, a.ual_sensor),
                     ual_fields, ual_rename, a.aggregate_every)
      lubw_query == build_hourly_source_query(a.start, a.stop, a.lubw_bucket,
                      a.lubw_measurement, Format(a.lubw_topic_template, a.lubw_sensor),
                      lubw_fields, lubw_rename, a.aggregate_every)
      ual_df == _clean_query_df_with_rename(r_ual, ual_rename)
      lubw_df == _clean_query_df_with_rename(r_lubw, lubw_rename)
      joined == joined_df(ual_df, lubw_df, a.join_how)
  IN IF ual_query.kind = "raise"
     THEN Failed(ual_query.err, <<>>, <<>>, EmptyFrame, EmptyFrame)
     ELSE IF lubw_query.kind = "raise"
     THEN Failed(lubw_query.err, <<>>, <<>>, EmptyFrame, EmptyFrame)
     ELSE IF joined.kind = "raise"
     THEN Failed(joined.err, <<ual_query.text, lubw_query.text>>, <<>>, ual_df, lubw_df)
     ELSE [kind |-> "return", err |-> "", df |-> joined.df,
           sent |-> <<ual_query.text, lubw_query.text>>,
           sink |-> << [path |-> a.output_csv_path, df |-> joined.df] >>,
           ual_df |-> ual_df, lubw_df |-> lubw_df]

\* r1, r2: the executor's answers to the debug fetch's own two queries;
\* r3, r4: its answers to the two queries of the nested fetch_hourly_ual_lubw.
fetch_hourly_ual_lubw_debug(a, r1, r2, r3, r4) ==
  LET ual_fields == OrDefault(a.ual_fields, DefaultUalFields)
      lubw_fields == OrDefault(a.lubw_fields, DefaultLubwFields)
      ual_rename == OrDefault(a.ual_rename, <<>>)
      lubw_rename == OrDefault(a.lubw_rename, <<>>)
      ual_query == build_hourly_source_query(a.start, a.stop, a.ual_bucket,
                     a.ual_measurement, Format(a.ual_topic_template, a.ual_sensor),
                     ual_fields, ual_rename, a.aggregate_every)
      ual_df == _clean_query_df_with_rename(r1, ual_rename)
      lubw_query == build_hourly_source_query(a.start, a.stop, a.lubw_bucket,
                      a.lubw_measurement, Format(a.lubw_topic_template, a.lubw_sensor),
                      lubw_fields, lubw_rename, a.aggregate_every)
      lubw_df == _clean_query_df_with_rename(r2, lubw_rename)
      w1 == [path |-> a.ual_csv_path, df |-> ual_df]
      w2 == [path |-> a.lubw_csv_path, df |-> lubw_df]
      inner == fetch_hourly_ual_lubw(
                 [start |-> a.start, stop |-> a.stop,
                  ual_sensor |-> a.ual_sensor, lubw_sensor |-> a.lubw_sensor,
                  ual_bucket |-> a.ual_bucket, lubw_bucket |-> a.lubw_bucket,
                  ual_measurement |-> a.ual_measurement,
                  lubw_measurement |-> a.lubw_measurement,
                  ual_topic_template |-> a.ual_topic_template,
                  lubw_topic_template |-> a.lubw_topic_template,
                  ual_fields |-> ual_fields, lubw_fields |-> lubw_fields,
                  ual_rename |-> ual_rename, lubw_rename |-> lubw_rename,
                  aggregate_every |-> a.aggregate_every, join_how |-> a.join_how,
                  output_csv_path |-> a.joined_csv_path],
                 r3, r4)
  IN IF ual_query.kind = "raise"
     THEN Failed(ual_query.err, <<>>, <<>>, EmptyFrame, EmptyFrame)
     ELSE IF lubw_query.kind = "raise"
     THEN Failed(lubw_query.err, <<ual_query.text>>, <<w1>>, ual_df, EmptyFrame)
     ELSE [inner EXCEPT !.sent = <<ual_query.text, lubw_query.text>> \o inner.sent,
                        !.sink = <<w1, w2>> \o inner.sink]

fetch_hourly_source(a, r) ==
  LET rename_map == OrDefault(a.rename_map, <<>>)
      query == build_hourly_source_query(a.start, a.stop, a.bucket, a.measurement,
                                         a.topic, a.fields, rename_map, a.aggregate_every)
      df == _clean_query_df_with_rename(r, rename_map)
  IN IF query.kind = "raise"
     THEN Failed(query.err, <<>>, <<>>, EmptyFrame, EmptyFrame)
     ELSE [kind |-> "return", err |-> "", df |-> df,
           sent |-> <<query.text>>,
           sink |-> IF a.output_csv_path # ""
                    THEN << [path |-> a.output_csv_path, df |-> df] >> ELSE <<>>,
           ual_df |-> EmptyFrame, lubw_df |-> EmptyFrame]

\* The defaults of fetch_hourly_ual_lubw that the CO wrappers leave in place.
GenericDefaults ==
  [ual_bucket |-> UAL_MINUTE_MEASUREMENT_BUCKET, lubw_bucket |-> LUBW_HOUR_BUCKET,
   ual_measurement |-> DefaultUalMeasurement, lubw_measurement |-> DefaultLubwMeasurement,
   ual_topic_template |-> DefaultUalTopicTemplate,
   lubw_topic_template |-> DefaultLubwTopicTemplate]

fetch_co_hourly_ual_lubw(a, r_ual, r_lubw) ==
  fetch_hourly_ual_lubw(
    [start |-> a.start, stop |-> a.stop,
     ual_sensor |-> a.ual_sensor, lubw_sensor |-> a.lubw_sensor,
     ual_bucket |-> GenericDefaults.ual_bucket, lubw_bucket |-> GenericDefaults.lubw_bucket,
     ual_measurement |-> GenericDefaults.ual_measurement,
     lubw_measurement |-> GenericDefaults.lubw_measurement,
     ual_topic_template |-> GenericDefaults.ual_topic_template,
     lubw_topic_template |-> GenericDefaults.lubw_topic_template,
     ual_fields |-> <<"CO", "RAW_ADC_CO_A", "RAW_ADC_CO_W", "sht_temp", "sht_humid">>,
     lubw_fields |-> <<"CO", "TEMP">>,
     ual_rename |-> CoUalRename, lubw_rename |-> CoLubwRename,
     aggregate_every |-> "1h", join_how |-> "inner",
     output_csv_path |-> a.output_csv_path],
    r_ual, r_lubw)

fetch_co_hourly_ual_lubw_debug(a, r1, r2, r3, r4) ==
  fetch_hourly_ual_lubw_debug(
    [start |-> a.start, stop |-> a.stop,
     ual_sensor |-> a.ual_sensor, lubw_sensor |-> a.lubw_sensor,
     ual_bucket |-> GenericDefaults.ual_bucket, lubw_bucket |-> GenericDefaults.lubw_bucket,
     ual_measurement |-> GenericDefaults.ual_measurement,
     lubw_measurement |-> GenericDefaults.lubw_measurement,
     ual_topic_template |-> GenericDefaults.ual_topic_template,
     lubw_topic_template |-> GenericDefaults.lubw_topic_template,
     ual_fields |-> <<"CO", "RAW_ADC_CO_A", "RAW_ADC_CO_W", "sht_temp", "sht_humid">>,
     lubw_fields |-> <<"CO", "TEMP">>,
     ual_rename |-> CoUalRename, lubw_rename |-> CoLubwRename,
     aggregate_every |-> "1h", join_how |-> "inner",
     ual_csv_path |-> a.ual_csv_path, lubw_csv_path |-> a.lubw_csv_path,
     joined_csv_path |-> a.joined_csv_path],
    r1, r2, r3, r4)

\* ------------------------------------------------- inputs and the executor
Times == 1..MaxTime

\* What a cell of a query result holds: the timestamp in _time, the hourly
\* mean in a field column (the two sources report different values).
CellValue(src, c, t) ==
  IF c = "_time" THEN t
  ELSE IF c \in MetadataColumns THEN 0
  ELSE IF c = "CO" THEN (IF src = "ual" THEN t ELSE t + 3)
  ELSE t + 10

MakeFrame(src, cols, times) ==
  [cols |-> cols, idx |-> "",
   rows |-> [i \in DOMAIN times |->
               [k |-> i - 1, v |-> [j \in DOMAIN cols |-> CellValue(src, cols[j], times[i])]]]]

\* Column layouts of the frames handed to the normalizer.
LayoutAll == <<"result", "table", "_start", "_stop", "_time", "CO", "_measurement", "topic", "host">>
LayoutMixed == <<"CO", "host", "_time", "result">>
LayoutPlain == <<"_time", "CO", "TEMP">>
LayoutNoTime == <<"CO", "TEMP">>
LayoutMetaOnly == <<"result", "table">>
Layouts == {LayoutAll, LayoutMixed, LayoutPlain, LayoutNoTime, LayoutMetaOnly}

\* the rows of a fragment: up to MaxRows consecutive timestamps from any start
TimeSeqs == {[i \in 1..n |-> t + i - 1] : t \in 1..MaxStamp, n \in 0..MaxRows}

FramesOf(ls) == {MakeFrame("ual", l, ts) : l \in ls, ts \in TimeSeqs}

Single(f) == [list |-> FALSE, frames |-> <<f>>]
Many(fs) == [list |-> TRUE, frames |-> fs]

\* A raw result: one frame, a list of frames of one layout, or a list of two
\* frames of which the second lacks the _time column.
RawResults ==
  {Single(f) : f \in FramesOf(Layouts)}
  \cup UNION {{Many(fs) : fs \in SeqsUpTo(FramesOf({l}), MaxFrags)} : l \in Layouts}
  \cup {Many(<<f, g>>) : f \in FramesOf({LayoutPlain}), g \in FramesOf({LayoutNoTime})}

\* sht_temp, a key of CoUalRename, is a column of none of the layouts.
RenameMaps == {<<>>, CoUalRename}

\* What the executor answers to a query for one source: one pivoted table per
\* answer, holding consecutive hourly windows, or an empty list of tables.
ExecutorLayout(src) ==
  IF src = "ual" THEN <<"result", "table", "_time", "CO", "sht_temp">>
  ELSE <<"result", "table", "_time", "CO", "TEMP">>

AscendingTimes ==
  {[i \in 1..n |-> t + i - 1] : t \in Times, n \in 0..MaxHours} \cap SeqsUpTo(Times, MaxHours)

Responses(src) ==
  {Single(MakeFrame(src, ExecutorLayout(src), ts)) : ts \in AscendingTimes}
  \cup {Many(<<>>)}

FieldPool == {"CO", "TEMP", "sht_temp"}
FieldLists == SeqsUpTo(FieldPool, MaxFields)
Windows == {"1h", "30m"}
JoinModes == {"inner", "left", "right", "outer"}
UalSensors == {"ual-4", "ual-7"}

\* ---------------------------------------------------------------- actions
NoReturn == [kind |-> "none", err |-> "", df |-> EmptyFrame, text |-> <<>>]
NoLocals == [ual_df |-> EmptyFrame, lubw_df |-> EmptyFrame]

Init ==
  /\ pc = "idle"
  /\ op = ""
  /\ arg = <<>>
  /\ ret = NoReturn
  /\ sent = <<>>
  /\ sink = <<>>
  /\ locals = NoLocals

ReturnFrame(df) == [kind |-> "return", err |-> "", df |-> df, text |-> <<>>]

Pure(name, a, r) ==
  /\ pc' = "done"
  /\ op' = name
  /\ arg' = a
  /\ ret' = r
  /\ UNCHANGED <<sent, sink, locals>>

Fetch(name, a, r) ==
  /\ pc' = "done"
  /\ op' = name
  /\ arg' = a
  /\ ret' = [kind |-> r.kind, err |-> r.err, df |-> r.df, text |-> <<>>]
  /\ sent' = r.sent
  /\ sink' = r.sink
  /\ locals' = [ual_df |-> r.ual_df, lubw_df |-> r.lubw_df]

CallNormalize ==
  /\ pc = "idle"
  /\ \E result \in RawResults :
    Pure("_normalize_df", [result |-> result], ReturnFrame(_normalize_df(result)))

CallClean ==
  /\ pc = "idle"
  /\ \E result \in RawResults :
    Pure("_clean_query_df", [result |-> result], ReturnFrame(_clean_query_df(result)))

CallCleanRename ==
  /\ pc = "idle"
  /\ \E result \in RawResults, rename_map \in RenameMaps :
    Pure("_clean_query_df_with_rename", [result |-> result, rename_map |-> rename_map],
         ReturnFrame(_clean_query_df_with_rename(result, rename_map)))

CallBuild ==
  /\ pc = "idle"
  /\ \E fields \in FieldLists, w \in Windows, rename_map \in RenameMaps, s \in UalSensors :
    LET a == [start |-> "-7d", stop |-> "now()", bucket |-> UAL_MINUTE_MEASUREMENT_BUCKET,
              measurement |-> DefaultUalMeasurement,
              topic |-> Format(DefaultUalTopicTemplate, s),
              fields |-> fields, rename_map |-> rename_map, aggregate_every |-> w]
        q == build_hourly_source_query(a.start, a.stop, a.bucket, a.measurement, a.topic,
                                       a.fields, a.rename_map, a.aggregate_every)
    IN Pure("build_hourly_source_query", a,
            [kind |-> q.kind, err |-> q.err, df |-> EmptyFrame, text |-> q.text])

CallBuildCo ==
  /\ pc = "idle"
  /\ \E s \in UalSensors, which \in {"join", "ual", "lubw"} :
    LET a == [start |-> "-7d", stop |-> "now()", ual_sensor |-> s, lubw_sensor |-> "DEBW152",
              ual_bucket |-> UAL_MINUTE_MEASUREMENT_BUCKET, lubw_bucket |-> LUBW_HOUR_BUCKET]
        q == CASE which = "join" ->
                    build_co_hourly_join_query(a.start, a.stop, a.ual_sensor, a.lubw_sensor,
                                               a.ual_bucket, a.lubw_bucket)
               [] which = "ual" ->
                    build_co_hourly_ual_query(a.start, a.stop, a.ual_sensor, a.ual_bucket)
               [] which = "lubw" ->
                    build_co_hourly_lubw_query(a.start, a.stop, a.lubw_sensor, a.lubw_bucket)
    IN Pure("build_co_hourly_" \o which \o "_query", a,
            [kind |-> q.kind, err |-> q.err, df |-> EmptyFrame, text |-> q.text])

CallFetchSource ==
  /\ pc = "idle"
  /\ \E fields \in FieldLists, r \in Responses("ual"), rename_map \in {<<>>, CoUalRename},
     path \in {"", "hourly_source.csv"} :
    LET a == [start |-> "-7d", stop |-> "now()", bucket |-> UAL_MINUTE_MEASUREMENT_BUCKET,
              measurement |-> DefaultUalMeasurement,
              topic |-> Format(DefaultUalTopicTemplate, "ual-4"),
              fields |-> fields, rename_map |-> rename_map, aggregate_every |-> "1h",
              output_csv_path |-> path, responses |-> <<r>>]
    IN Fetch("fetch_hourly_source", a, fetch_hourly_source(a, r))

JoinArgs(ual_fields, lubw_fields, ual_rename, lubw_rename, how) ==
  [start |-> "-7d", stop |-> "now()", ual_sensor |-> "ual-4", lubw_sensor |-> "DEBW152",
   ual_bucket |-> GenericDefaults.ual_bucket, lubw_bucket |-> GenericDefaults.lubw_bucket,
   ual_measurement |-> GenericDefaults.ual_measurement,
   lubw_measurement |-> GenericDefaults.lubw_measurement,
   ual_topic_template |-> GenericDefaults.ual_topic_template,
   lubw_topic_template |-> GenericDefaults.lubw_topic_template,
   ual_fields |-> ual_fields, lubw_fields |-> lubw_fields,
   ual_rename |-> ual_rename, lubw_rename |-> lubw_rename,
   aggregate_every |-> "1h", join_how |-> how,
   output_csv_path |-> "hourly_ual_lubw.csv",
   ual_csv_path |-> "hourly_ual_only.csv", lubw_csv_path |-> "hourly_lubw_only.csv",
   joined_csv_path |-> "hourly_ual_lubw.csv"]

WithResponses(a, rs) == [x \in DOMAIN a \cup {"responses"} |-> IF x = "responses" THEN rs ELSE a[x]]

CallFetchJoin ==
  /\ pc = "idle"
  /\ \E ual_fields \in {<<>>, <<"CO">>}, lubw_fields \in {<<>>, <<"CO">>},
     ual_rename \in {<<>>, CoUalRename}, lubw_rename \in {<<>>, CoLubwRename},
     how \in JoinModes, r_ual \in Responses("ual"), r_lubw \in Responses("lubw") :
    LET a == JoinArgs(ual_fields, lubw_fields, ual_rename, lubw_rename, how)
    IN Fetch("fetch_hourly_ual_lubw", WithResponses(a, <<r_ual, r_lubw>>),
             fetch_hourly_ual_lubw(a, r_ual, r_lubw))

CallFetchDebug ==
  /\ pc = "idle"
  /\ \E cfg \in {<<<<>>, FALSE>>, <<<<>>, TRUE>>, <<<<"CO">>, TRUE>>}, how \in {"inner", "outer"},
     r1 \in Responses("ual"), r2 \in Responses("lubw"),
     r3 \in Responses("ual"), r4 \in Responses("lubw") :
    LET a == JoinArgs(cfg[1], cfg[1],
                      IF cfg[2] THEN CoUalRename ELSE <<>>,
                      IF cfg[2] THEN CoLubwRename ELSE <<>>, how)
    IN Fetch("fetch_hourly_ual_lubw_debug", WithResponses(a, <<r1, r2, r3, r4>>),
             fetch_hourly_ual_lubw_debug(a, r1, r2, r3, r4))

CoArgs ==
  [start |-> "-7d", stop |-> "now()", ual_sensor |-> "ual-4", lubw_sensor |-> "DEBW152",
   output_csv_path |-> "co_hourly_ual4_lubw015.csv",
   ual_csv_path |-> "co_hourly_ual_only.csv", lubw_csv_path |-> "co_hourly_lubw_only.csv",
   joined_csv_path |-> "co_hourly_ual4_lubw015.csv"]

CallFetchCo ==
  /\ pc = "idle"
  /\ \E r_ual \in Responses("ual"), r_lubw \in Responses("lubw") :
    Fetch("fetch_co_hourly_ual_lubw", WithResponses(CoArgs, <<r_ual, r_lubw>>),
          fetch_co_hourly_ual_lubw(CoArgs, r_ual, r_lubw))

CallFetchCoDebug ==
  /\ pc = "idle"
  /\ \E r1 \in Responses("ual"), r2 \in Responses("lubw"),
     r3 \in Responses("ual"), r4 \in Responses("lubw") :
    Fetch("fetch_co_hourly_ual_lubw_debug", WithResponses(CoArgs, <<r1, r2, r3, r4>>),
          fetch_co_hourly_ual_lubw_debug(CoArgs, r1, r2, r3, r4))

\* The call is over: its tables and strings are discarded, nothing is kept
\* for the next call.
Return ==
  /\ pc = "done"
  /\ pc' = "idle"
  /\ op' = ""
  /\ arg' = <<>>
  /\ ret' = NoReturn
  /\ sent' = <<>>
  /\ sink' = <<>>
  /\ locals' = NoLocals

Next ==
  \/ CallNormalize
  \/ CallClean
  \/ CallCleanRename
  \/ CallBuild
  \/ CallBuildCo
  \/ CallFetchSource
  \/ CallFetchJoin
  \/ CallFetchDebug
  \/ CallFetchCo
  \/ CallFetchCoDebug
  \/ Return

Spec == Init /\ [][Next]_vars

\* ================================================================ claims
Done(name) == pc = "done" /\ op = name

\* C1: build_hourly_source_query with an empty field list raises the
\* builder's error (the code's RuntimeError, the spec's InvalidSpecError)
\* whatever the other parameters are, and returns no query text.
C1_EmptyFieldsRaise ==
  (Done("build_hourly_source_query") /\ arg.fields = <<>>)
    => (ret.kind = "raise" /\ ret.err = "RuntimeError" /\ ret.text = <<>>)

C1_Witness ==
  /\ Done("build_hourly_source_query")
  /\ arg.fields = <<>>
  /\ arg.aggregate_every = "30m"
  /\ arg.rename_map # <<>>
  /\ ret.kind = "raise"

\* C2 (as claimed): an inner dual-source join fetch whose two normalized
\* tables are both non-empty returns a table whose index is exactly the
\* timestamps present on both sides, each row carrying the UAL side's values
\* followed by the LUBW side's values for that timestamp, also when both
\* sides have a column of the same name.
C2_InnerJoinKeepsCommonTimestamps ==
  (/\ Done("fetch_hourly_ual_lubw")
   /\ arg.join_how = "inner"
   /\ ~IsEmpty(_clean_query_df_with_rename(arg.responses[1], arg.ual_rename))
   /\ ~IsEmpty(_clean_query_df_with_rename(arg.responses[2], arg.lubw_rename)))
    => LET A == _clean_query_df_with_rename(arg.responses[1], arg.ual_rename)
           B == _clean_query_df_with_rename(arg.responses[2], arg.lubw_rename)
       IN /\ ret.kind = "return"
          /\ Keys(ret.df) = Keys(A) \cap Keys(B)
          /\ \A i \in DOMAIN ret.df.rows :
               \E x \in DOMAIN A.rows, y \in DOMAIN B.rows :
                 /\ A.rows[x].k = ret.df.rows[i].k
                 /\ B.rows[y].k = ret.df.rows[i].k
                 /\ ret.df.rows[i].v = A.rows[x].v \o B.rows[y].v

\* C3: in the dual-source join fetch an empty side is no error: with exactly
\* one normalized table empty the result is the other side's table unchanged,
\* whatever the join mode; with both empty it is an empty table whose index
\* is named _time.
C3_EmptySideFallsBack ==
  Done("fetch_hourly_ual_lubw")
    => LET A == _clean_query_df_with_rename(arg.responses[1], arg.ual_rename)
           B == _clean_query_df_with_rename(arg.responses[2], arg.lubw_rename)
       IN /\ (IsEmpty(A) \/ IsEmpty(B)) => ret.kind = "return"
          /\ (IsEmpty(A) /\ ~IsEmpty(B)) => ret.df = B
          /\ (~IsEmpty(A) /\ IsEmpty(B)) => ret.df = A
          /\ (IsEmpty(A) /\ IsEmpty(B)) =>
               (ret.df.rows = <<>> /\ ret.df.cols = <<>> /\ ret.df.idx = "_time")

C3_Witness ==
  /\ Done("fetch_hourly_ual_lubw")
  /\ arg.join_how = "outer"
  /\ arg.responses[1] = Many(<<>>)
  /\ ret.kind = "return"
  /\ Len(ret.df.rows) = 2
  /\ ret.df.cols = <<"CO", "TEMP">>
  /\ ret.df.idx = "_time"

C3_WitnessBothEmpty ==
  /\ Done("fetch_hourly_ual_lubw")
  /\ arg.responses[1] = Many(<<>>)
  /\ Len(arg.responses[2].frames) = 1
  /\ ret.df.idx = "_time"
  /\ ret.df.rows = <<>>

\* C4: for a non-empty raw result, whatever the order of its columns, the
\* cleaned table's columns (with the column that became the index) are the
\* raw columns without the metadata columns result, table, _start, _stop,
\* _measurement, topic and host: every metadata column present is gone, every
\* other column is kept with its cells (under its new name if the rename map
\* names it), and an absent metadata column raises nothing.
C4_DropsExactlyMetadata ==
  (pc = "done" /\ op \in {"_clean_query_df", "_clean_query_df_with_rename"}
   /\ ~IsEmpty(_normalize_df(arg.result)))
    => LET raw == _normalize_df(arg.result)
           m == IF op = "_clean_query_df" THEN <<>> ELSE arg.rename_map
           New(c) == IF \E i \in DOMAIN m : m[i][1] = c
                     THEN m[CHOOSE i \in DOMAIN m : m[i][1] = c][2] ELSE c
           kept == {c \in Range(raw.cols) : c \notin
                      {"result", "table", "_start", "_stop", "_measurement", "topic", "host"}}
           out == Range(ret.df.cols) \cup (IF ret.df.idx = "" THEN {} ELSE {ret.df.idx})
       IN /\ ret.kind = "return"
          /\ out = {New(c) : c \in kept}
          /\ Len(ret.df.rows) = Len(raw.rows)
          /\ \A c \in kept : \A i \in DOMAIN raw.rows :
               IF New(c) = ret.df.idx
               THEN ret.df.rows[i].k = Cell(raw, i, c)
               ELSE Cell(ret.df, i, New(c)) = Cell(raw, i, c)

C4_Witness ==
  /\ Done("_clean_query_df_with_rename")
  /\ arg.result = Single(MakeFrame("ual", LayoutMixed, <<2, 3>>))
  /\ arg.rename_map = CoUalRename
  /\ ret.df.cols = <<"CO_ual">>
  /\ ret.df.idx = "_time"

\* C5: when the raw result is a list of tables, the normalized table holds
\* the fragments' rows in list order, each fragment's rows in their own
\* order (its row count is the sum of the fragments' row counts); the empty
\* list gives an empty table and raises nothing.
C5_ConcatenatesInOrder ==
  (Done("_normalize_df") /\ arg.result.list)
    => LET fs == arg.result.frames
           Before(f) == Len(Flatten([g \in 1..(f - 1) |-> fs[g].rows]))
       IN /\ ret.kind = "return"
          /\ fs = <<>> => (ret.df.rows = <<>> /\ ret.df.cols = <<>>)
          /\ Len(ret.df.rows) = Before(Len(fs) + 1)
          /\ \A f \in DOMAIN fs : \A i \in DOMAIN fs[f].rows :
               \A c \in Range(fs[f].cols) :
                 Cell(ret.df, Before(f) + i, c) = Cell(fs[f], i, c)

C5_Witness ==
  /\ Done("_normalize_df")
  /\ arg.result.list
  /\ Len(arg.result.frames) = 2
  /\ Len(arg.result.frames[1].rows) = 2
  /\ Len(arg.result.frames[2].rows) = 3
  /\ arg.result.frames[1].cols = LayoutPlain
  /\ arg.result.frames[2].cols = LayoutPlain
  /\ Len(ret.df.rows) = 5
  /\ [i \in 1..5 |-> Cell(ret.df, i, "_time")] = <<2, 3, 1, 2, 3>>

C5_WitnessEmptyList ==
  /\ Done("_clean_query_df_with_rename")
  /\ arg.result = Many(<<>>)
  /\ ret.kind = "return"
  /\ ret.df = EmptyFrame

\* C6: for a non-empty field list the text of build_hourly_source_query has
\* one r._field term per listed field, in list order and separated by "or",
\* and exactly one aggregateWindow clause, whose window is the given one.
C6_OneTermPerField ==
  (Done("build_hourly_source_query") /\ arg.fields # <<>>)
    => LET t == ret.text
           n == Len(arg.fields)
           terms == Positions(t, "r._field == \"")
           first == CHOOSE p \in terms : \A q \in terms : p <= q
           aggs == Positions(t, "|> aggregateWindow(every: ")
       IN /\ ret.kind = "return"
          /\ Cardinality(terms) = n
          /\ Cardinality(Positions(t, " or ")) = n - 1
          /\ \A i \in 1..n :
               /\ t[first + 4 * (i - 1)] = "r._field == \""
               /\ t[first + 4 * (i - 1) + 1] = arg.fields[i]
               /\ t[first + 4 * (i - 1) + 2] = "\""
               /\ i < n => t[first + 4 * (i - 1) + 3] = " or "
          /\ Cardinality(aggs) = 1
          /\ \A q \in aggs : t[q + 1] = arg.aggregate_every

C6_Witness ==
  /\ Done("build_hourly_source_query")
  /\ arg.fields = <<"TEMP", "CO">>
  /\ arg.aggregate_every = "30m"
  /\ ret.kind = "return"
  /\ Cardinality(Positions(ret.text, " or ")) = 1

\* C7 (as claimed): the text of build_co_hourly_join_query names every
\* hardcoded field (CO, RAW_ADC_CO_A, RAW_ADC_CO_W, sht_temp, sht_humid, TEMP)
\* and, in embedded rename steps, every rename target (CO_ual, UAL_TEMP,
\* CO_lubw, LUBW_TEMP), while the text of the generic builder names no rename
\* target.
C7_JoinQueryEmbedsRename ==
  /\ Done("build_co_hourly_join_query")
       => /\ ret.kind = "return"
          /\ \A f \in {"CO", "RAW_ADC_CO_A", "RAW_ADC_CO_W", "sht_temp", "sht_humid", "TEMP"} :
               f \in Range(ret.text)
          /\ \A t \in {"CO_ual", "UAL_TEMP", "CO_lubw", "LUBW_TEMP"} :
               t \in Range(ret.text)
  /\ Done("build_hourly_source_query")
       => \A i \in DOMAIN arg.rename_map : arg.rename_map[i][2] \notin Range(ret.text)

\* C8 (as claimed): fetch_co_hourly_ual_lubw always returns a table whose
\* columns are the fixed expected list, in its fixed order, whatever columns
\* the executor returned.
C8_FixedColumnList ==
  Done("fetch_co_hourly_ual_lubw")
    => /\ ret.kind = "return"
       /\ ret.df.cols = <<"CO_ual", "RAW_ADC_CO_A", "RAW_ADC_CO_W", "UAL_TEMP", "sht_humid",
                          "CO_lubw", "LUBW_TEMP">>

\* C9 (as claimed): a debug fetch that returns has written the UAL table,
\* then the LUBW table, then the joined table, each to its own path, and the
\* joined table written and returned is the join of the two tables written
\* before it, whatever the executor answered to each call.
C9_JoinedIsJoinOfWritten ==
  (Done("fetch_hourly_ual_lubw_debug") /\ ret.kind = "return")
    => /\ Len(sink) = 3
       /\ sink[1].path = arg.ual_csv_path
       /\ sink[2].path = arg.lubw_csv_path
       /\ sink[3].path = arg.joined_csv_path
       /\ sink[3].df = ret.df
       /\ ret.df = joined_df(sink[1].df, sink[2].df, arg.join_how).df

\* C10: the dual-source join fetch and the debug fetch replace an empty field
\* list of a side by that side's default list before building the query: they
\* never raise the empty-fields error and every query sent for that side asks
\* for the default fields; the single-source fetch given an empty field list
\* raises that error and sends nothing.
C10_EmptyFieldsDefaulted ==
  /\ (pc = "done" /\ op \in {"fetch_hourly_ual_lubw", "fetch_hourly_ual_lubw_debug"})
       => LET Asked(t) == {t[p + 1] : p \in Positions(t, "r._field == \"")}
              Terms(t) == Cardinality(Positions(t, "r._field == \""))
          IN /\ ret.err # "RuntimeError"
             /\ Len(sent) = Len(arg.responses)
             /\ \A k \in DOMAIN sent :
                  /\ (k % 2 = 1 /\ arg.ual_fields = <<>>)
                       => (Terms(sent[k]) = 5 /\ Asked(sent[k]) =
                             {"CO", "RAW_ADC_CO_A", "RAW_ADC_CO_W", "sht_temp", "sht_humid"})
                  /\ (k % 2 = 0 /\ arg.lubw_fields = <<>>)
                       => (Terms(sent[k]) = 2 /\ Asked(sent[k]) = {"CO", "TEMP"})
  /\ (Done("fetch_hourly_source") /\ arg.fields = <<>>)
       => (ret.kind = "raise" /\ ret.err = "RuntimeError" /\ sent = <<>> /\ sink = <<>>)

C10_Witness ==
  /\ Done("fetch_hourly_ual_lubw_debug")
  /\ arg.ual_fields = <<>>
  /\ arg.lubw_fields = <<>>
  /\ ret.kind = "return"
  /\ Len(sent) = 4
  /\ "RAW_ADC_CO_A" \in Range(sent[3])

C10_WitnessSingleSource ==
  /\ Done("fetch_hourly_source")
  /\ arg.fields = <<>>
  /\ ret.err = "RuntimeError"

====
